---------------------------- MODULE Spec2Model ----------------------------
(***************************************************************************)
(* The DNS message decoder of dns2tcp.go (getDomainName, parseRR,          *)
(* parseDNSMsg) as a state machine.  A buffer is a sequence of bytes; the  *)
(* Go index k of a buffer d is d[k + 1].  One behaviour is a caller that   *)
(* decodes a buffer and then decodes it again, whole or cut short.         *)
(***************************************************************************)
EXTENDS Integers, Sequences, FiniteSets, TLC

VARIABLES
    full,     \* the buffer handed to the first parseDNSMsg call
    data,     \* parseDNSMsg / getDomainName / parseRR: data []byte
    call,     \* which call of the caller is running (1 or 2)
    pc,       \* position in parseDNSMsg
    msg,      \* parseDNSMsg: var msg dnsMsg
    sec,      \* the section whose loop is running
    arr,      \* the local slice question / answer / ns / extra of that loop
    i,        \* the loop index i
    cursor,   \* parseDNSMsg / parseRR: cursor
    gdn,      \* the frame of getDomainName
    nameRet,  \* what the last getDomainName call returned
    ret,      \* what parseDNSMsg returned
    first,    \* what the first call returned
    logs,     \* number of lines written to the process log (log.Printf)
    rd,       \* buffer indices the last step indexed
    recs,     \* history: the offsets of every record parsed in this call
    steps,    \* history: the steps this call has taken
    orig      \* the message the buffer was encoded from, when it was

vars == <<full, data, call, pc, msg, sec, arr, i, cursor, gdn, nameRet, ret,
          first, logs, rd, recs, steps, orig>>

----------------------------------------------------------------------------
(* Bounds of the model *)

\* most question records laid out in an input buffer
MaxQ == 1
\* most resource records laid out in an input buffer
MaxRR == 2

\* most compression pointers chained in the name of an input buffer
MaxHops == 12

----------------------------------------------------------------------------
(* Program constants *)

\* len(data) < 12
HeaderLen == 12
\* pointerFollowCount > 10
MaxPointerFollow == 10
\* Qtype(2) + Qclass(2)
QFixedLen == 4
\* Rrtype(2) + Class(2) + Ttl(4) + Rdlength(2)
RRFixedLen == 10

Nil == "nil"

----------------------------------------------------------------------------
(* Integer and byte helpers *)

RECURSIVE BitAnd(_, _)
\* x & y on naturals
BitAnd(x, y) ==
    IF x = 0 \/ y = 0 THEN 0
    ELSE (x % 2) * (y % 2) + 2 * BitAnd(x \div 2, y \div 2)

RECURSIVE Pow2(_)
Pow2(n) == IF n = 0 THEN 1 ELSE 2 * Pow2(n - 1)

\* x >> n
Shr(x, n) == x \div Pow2(n)

\* func Itob(x uint16) bool
Itob(x) == IF x = 0 THEN FALSE ELSE TRUE

\* binary.BigEndian.Uint16(d[off:])
Uint16(d, off) == d[off + 1] * 256 + d[off + 2]

\* binary.BigEndian.Uint32(d[off:]): the value hi * 2^16 + lo, kept as the
\* pair <<hi, lo>> of its 16-bit halves (it does not fit a 32-bit signed integer)
Uint32(d, off) == <<Uint16(d, off), Uint16(d, off + 2)>>

\* the indices a read of n bytes at off touches
Span(off, n) == off .. (off + n - 1)

\* an index expression the Go runtime accepts
InBuf(d, idx) == \A k \in idx : 0 <= k /\ k < Len(d)

\* d[from:to]
Slice(d, from, to) == SubSeq(d, from + 1, to)

RECURSIVE Join(_, _)
\* strings.Join(labels, sep): a string is the sequence of its bytes
Join(labels, sep) ==
    IF labels = <<>> THEN <<>>
    ELSE IF Len(labels) = 1 THEN labels[1]
    ELSE labels[1] \o sep \o Join(Tail(labels), sep)

\* "."
Dot == <<46>>

\* the text "Too many compression pointers"
TooManyText ==
    <<84, 111, 111, 32, 109, 97, 110, 121, 32, 99, 111, 109, 112, 114, 101,
      115, 115, 105, 111, 110, 32, 112, 111, 105, 110, 116, 101, 114, 115>>

----------------------------------------------------------------------------
(* The decoded structures *)

\* make([]T, n): n elements, of which elems are the ones assigned so far
MakeArr(n) == [n |-> n, elems |-> <<>>]

\* a nil slice
NilArr == [n |-> 0, elems |-> <<>>]

\* var msg dnsMsg
ZeroMsg ==
    [id |-> 0, response |-> FALSE, opcode |-> 0, authoritative |-> FALSE,
     truncated |-> FALSE, recursion_desired |-> FALSE,
     recursion_available |-> FALSE, rcode |-> 0,
     question_num |-> 0, answer_num |-> 0, authority_num |-> 0,
     additional_num |-> 0,
     question |-> NilArr, answer |-> NilArr, ns |-> NilArr, extra |-> NilArr]

\* the frame of a getDomainName call that has not started
NoFrame ==
    [initialCursor |-> 0, currentReadPos |-> 0, pointerFollowCount |-> 0,
     posAfterFirstPointer |-> 0, labels |-> <<>>]

NoNameRet == [name |-> <<>>, cursor |-> 0, err |-> Nil, called |-> FALSE]

NoRet == [msg |-> ZeroMsg, err |-> Nil, returned |-> FALSE]

NoMsg == [none |-> TRUE]


----------------------------------------------------------------------------
(* Input buffers: a 12-byte header followed by question and resource       *)
(* records laid out one after the other, as in the byte literal of         *)
(* TestParseDNSMsgWithCompression.  A record's name is one of a few wire   *)
(* encodings, well-formed or not; the header counts are chosen apart from  *)
(* the records laid out, so they may disagree with them.                   *)

\* encodings of the name of a question record
QNameKinds == {"a", "ptrFwd", "ptrQ", "ptrOOR", "bad"}

\* encodings of the name of a resource record
RRNameKinds == {"root", "ptrQ", "b.ptrQ"}

\* the wire bytes of a name of the given kind laid out at offset off
NameWire(kind, off) ==
    CASE kind = "root"   -> <<0>>
      [] kind = "a"      -> <<1, 97, 0>>
      [] kind = "ptrQ"   -> <<192, HeaderLen>>
      [] kind = "b.ptrQ" -> <<1, 98, 192, HeaderLen>>
      [] kind = "ptrFwd" -> <<192, off + 2>>
      [] kind = "ptrOOR" -> <<192, 255>>
      [] kind = "bad"    -> <<64>>

\* QTYPE A, QCLASS IN
QWire(kind, off) == NameWire(kind, off) \o <<0, 1, 0, 1>>

\* the RDATA laid out after a record of the given kind
RDataOf(kind) == IF kind = "root" THEN <<>> ELSE <<192, 2>>

\* TYPE CNAME, CLASS IN, TTL 300, RDLENGTH, RDATA
RRWire(kind, off) ==
    NameWire(kind, off) \o <<0, 5, 0, 1, 0, 0, 1, 44, 0, Len(RDataOf(kind))>>
        \o RDataOf(kind)

RECURSIVE QSection(_, _)
QSection(kinds, off) ==
    IF kinds = <<>> THEN <<>>
    ELSE LET w == QWire(Head(kinds), off)
         IN  w \o QSection(Tail(kinds), off + Len(w))

RECURSIVE RRSection(_, _)
RRSection(kinds, off) ==
    IF kinds = <<>> THEN <<>>
    ELSE LET w == RRWire(Head(kinds), off)
         IN  w \o RRSection(Tail(kinds), off + Len(w))

\* the 12 header bytes, big-endian
HeaderWire(id, flags, qd, an, ns, ar) ==
    <<id \div 256, id % 256, flags \div 256, flags % 256,
      qd \div 256, qd % 256, an \div 256, an % 256,
      ns \div 256, ns % 256, ar \div 256, ar % 256>>

\* a whole buffer
BufferOf(id, flags, qd, an, ns, ar, qkinds, rrkinds) ==
    LET q == QSection(qkinds, HeaderLen)
    IN  HeaderWire(id, flags, qd, an, ns, ar) \o q
            \o RRSection(rrkinds, HeaderLen + Len(q))

SeqsUpTo(S, n) == UNION {[1 .. k -> S] : k \in 0 .. n}

\* 0x1234
TestId == 4660
\* 0x8180
TestFlags == 33152
\* the largest count a header can declare
MaxUint16 == 65535

QdCounts == (0 .. MaxQ) \cup {MaxUint16}
AnCounts == 0 .. MaxRR
NsCounts == 0 .. 1
ArCounts == 0 .. 1

----------------------------------------------------------------------------
(* Initial state: the caller holds a buffer and has not called yet *)

\* the caller's state before parseDNSMsg(buf) runs on buf
Fresh(buf) ==
    /\ data = buf
    /\ pc = "start"
    /\ msg = ZeroMsg
    /\ sec = "question"
    /\ arr = NilArr
    /\ i = 0
    /\ cursor = 0
    /\ gdn = NoFrame
    /\ nameRet = NoNameRet
    /\ ret = NoRet
    /\ rd = {}
    /\ recs = <<>>
    /\ steps = 0

Init ==
    /\ \E qk \in SeqsUpTo(QNameKinds, MaxQ), rk \in SeqsUpTo(RRNameKinds, MaxRR),
          qd \in QdCounts, an \in AnCounts, ns \in NsCounts, ar \in ArCounts :
          full = BufferOf(TestId, TestFlags, qd, an, ns, ar, qk, rk)
    /\ Fresh(full)
    /\ call = 1
    /\ first = NoRet
    /\ logs = 0
    /\ orig = NoMsg

----------------------------------------------------------------------------
(* parseDNSMsg: the header *)

\* mutant: an 11-byte buffer passes the header check
HeaderTooShort_Eleven(d) == Len(d) < HeaderLen - 1

\* len(data) < 12
HeaderTooShort(d) == Len(d) < HeaderLen

\* msg.response = true
HdrResponse(dnsmisc) == TRUE

\* uint((dnsmisc >> 11) & 0x000F)
HdrOpcode(dnsmisc) == BitAnd(Shr(dnsmisc, 11), 15)

\* Itob((dnsmisc & 0x0400) >> 10)
HdrAuthoritative(dnsmisc) == Itob(Shr(BitAnd(dnsmisc, 1024), 10))

\* Itob((dnsmisc & 0x0200) >> 9)
HdrTruncated(dnsmisc) == Itob(Shr(BitAnd(dnsmisc, 512), 9))

\* Itob((dnsmisc & 0x0100) >> 8)
HdrRecursionDesired(dnsmisc) == Itob(Shr(BitAnd(dnsmisc, 256), 8))

\* mutant: the masked nibble is shifted down whole
HdrRecursionAvailable_Nibble(dnsmisc) == Itob(Shr(BitAnd(dnsmisc, 240), 4))

\* Itob((dnsmisc & 0x00F0) >> 7)
HdrRecursionAvailable(dnsmisc) == Itob(Shr(BitAnd(dnsmisc, 240), 7))

\* uint(dnsmisc & 0x000F)
HdrRcode(dnsmisc) == BitAnd(dnsmisc, 15)

\* msg after the header fields and the four counts are assigned
WithHeader(m, d) ==
    LET dnsmisc == Uint16(d, 2)
    IN  [m EXCEPT
            !.id = Uint16(d, 0),
            !.response = HdrResponse(dnsmisc),
            !.opcode = HdrOpcode(dnsmisc),
            !.authoritative = HdrAuthoritative(dnsmisc),
            !.truncated = HdrTruncated(dnsmisc),
            !.recursion_desired = HdrRecursionDesired(dnsmisc),
            !.recursion_available = HdrRecursionAvailable(dnsmisc),
            !.rcode = HdrRcode(dnsmisc),
            !.question_num = Uint16(d, 4),
            !.answer_num = Uint16(d, 6),
            !.authority_num = Uint16(d, 8),
            !.additional_num = Uint16(d, 10)]

\* return msg, err
Returned(m, e) == [msg |-> m, err |-> e, returned |-> TRUE]

ParseHeader ==
    /\ pc = "start"
    /\ steps' = steps + 1
    /\ IF HeaderTooShort(data)
       THEN /\ logs' = logs + 1
            /\ ret' = Returned(msg, "data too short for DNS header")
            /\ pc' = "done"
            /\ rd' = {}
            /\ UNCHANGED <<msg, cursor, arr>>
       ELSE IF ~InBuf(data, Span(0, HeaderLen))
       THEN /\ pc' = "panic"
            /\ rd' = Span(0, HeaderLen)
            /\ UNCHANGED <<msg, cursor, arr, logs, ret>>
       ELSE /\ msg' = WithHeader(msg, data)
            /\ cursor' = HeaderLen
            /\ arr' = MakeArr(msg'.question_num)
            /\ pc' = "loop"
            /\ rd' = Span(0, HeaderLen)
            /\ UNCHANGED <<logs, ret>>
    /\ UNCHANGED <<full, data, call, sec, i, gdn, nameRet, first, recs, orig>>

----------------------------------------------------------------------------
(* parseDNSMsg: the head and the exit of the four section loops *)

Sections == <<"question", "answer", "ns", "extra">>

\* the header count that bounds the loop of section s
CountOf(m, s) ==
    CASE s = "question" -> m.question_num
      [] s = "answer"   -> m.answer_num
      [] s = "ns"       -> m.authority_num
      [] s = "extra"    -> m.additional_num

SecIndex(s) == CHOOSE k \in 1 .. 4 : Sections[k] = s

\* the next section guarded by `if msg.<count> > 0` that is entered, or "end"
NextSection(m, s) ==
    LET later == {k \in (SecIndex(s) + 1) .. 4 : CountOf(m, Sections[k]) > 0}
    IN  IF later = {} THEN "end"
        ELSE Sections[CHOOSE k \in later : \A j \in later : k <= j]

\* mutant: the loop stops one record early
LoopRuns_OneShort(idx, n) == idx < n - 1

\* i < int(msg.<count>)
LoopRuns(idx, n) == idx < n

\* mutant: the offset len(data) itself still counts as inside the buffer
AtEnd_Past(c, d) == c > Len(d)

\* cursor >= len(data)
AtEnd(c, d) == c >= Len(d)

\* errors.New("EOF parsing ...")
EOFError(s) ==
    CASE s = "question" -> "EOF parsing questions"
      [] s = "answer"   -> "EOF parsing answers"
      [] s = "ns"       -> "EOF parsing authority RRs"
      [] s = "extra"    -> "EOF parsing additional RRs"

\* the frame of getDomainName(data, c) on entry
EnterName(c) ==
    [initialCursor |-> c, currentReadPos |-> c, pointerFollowCount |-> 0,
     posAfterFirstPointer |-> 0, labels |-> <<>>]

SectionLoop ==
    /\ pc = "loop"
    /\ steps' = steps + 1
    /\ rd' = {}
    /\ IF LoopRuns(i, arr.n)
       THEN IF AtEnd(cursor, data)
            THEN /\ logs' = logs + 1
                 /\ ret' = Returned(msg, EOFError(sec))
                 /\ pc' = "done"
                 /\ UNCHANGED <<msg, sec, arr, i, gdn>>
            ELSE /\ gdn' = EnterName(cursor)
                 /\ pc' = "name"
                 /\ UNCHANGED <<msg, sec, arr, i, logs, ret>>
       ELSE /\ msg' = [msg EXCEPT ![sec] = arr]
            /\ LET nxt == NextSection(msg', sec)
               IN  IF nxt = "end"
                   THEN /\ ret' = Returned(msg', Nil)
                        /\ pc' = "done"
                        /\ UNCHANGED <<sec, arr, i>>
                   ELSE /\ sec' = nxt
                        /\ arr' = MakeArr(CountOf(msg', nxt))
                        /\ i' = 0
                        /\ pc' = "loop"
                        /\ UNCHANGED ret
            /\ UNCHANGED <<logs, gdn>>
    /\ UNCHANGED <<full, data, call, cursor, nameRet, first, recs, orig>>

----------------------------------------------------------------------------
(* getDomainName: one iteration of its for loop *)

\* mutant: the label check lets a label end one byte past the buffer
LabelExceeds_OffByOne(pos, size, d) == pos + size > Len(d) + 1

\* currentReadPos+int(labelSize) > len(data)
LabelExceeds(pos, size, d) == pos + size > Len(d)

\* mutant: the pointer counter is never incremented
CountPointer_Forgotten(n) == n

\* pointerFollowCount++
CountPointer(n) == n + 1

\* mutant: the tenth pointer is already one too many
TooManyPointers_AtCap(n) == n >= MaxPointerFollow

\* pointerFollowCount > 10
TooManyPointers(n) == n > MaxPointerFollow

\* mutant: the resume offset is overwritten at every pointer
AfterFirstPointer_Every(g, pos) == pos + 1

\* if pointerFollowCount == 0 { posAfterFirstPointer = currentReadPos + 1 }
AfterFirstPointer(g, pos) ==
    IF g.pointerFollowCount = 0 THEN pos + 1 ELSE g.posAfterFirstPointer

\* mutant: the two tag bits of the first byte are kept in the target
PointerDestination_NoMask(labelSize, secondByte) == labelSize * 256 + secondByte

\* ((int(labelSize) & 0x3F) << 8) | int(secondByte)
PointerDestination(labelSize, secondByte) ==
    BitAnd(labelSize, 63) * 256 + secondByte

\* mutant: a pointer to the offset len(data) itself is accepted
InvalidDestination_Inclusive(dest, d) == dest < 0 \/ dest > Len(d)

\* pointerDestination < 0 || pointerDestination >= len(data)
InvalidDestination(dest, d) == dest < 0 \/ dest >= Len(d)

\* mutant: after a pointer the offset reached in the jumped-to bytes is returned
ResumeOffset_Jumped(g, pos) == pos

\* the cursor returned with a successful name
ResumeOffset(g, pos) ==
    IF g.pointerFollowCount > 0 THEN g.posAfterFirstPointer ELSE pos

\* return "", initialCursor, errors.New(e)
NameFail(g, e, idx) ==
    [k |-> "fail", rd |-> idx, name |-> <<>>, cursor |-> g.initialCursor,
     err |-> e]

\* the out-of-range index that stops the program
NamePanic(idx) == [k |-> "panic", rd |-> idx]

\* what one iteration of the loop of getDomainName does in frame g
NameIter(d, g) ==
    LET crp == g.currentReadPos
        pos == crp + 1
    IN
    IF AtEnd(crp, d) THEN NameFail(g, "reached end of data buffer", {})
    ELSE IF ~InBuf(d, {crp}) THEN NamePanic({crp})
    ELSE
    LET labelSize == d[crp + 1]
    IN
    IF labelSize = 0
    THEN [k |-> "ret", rd |-> {crp}, name |-> Join(g.labels, Dot),
          cursor |-> ResumeOffset(g, pos)]
    ELSE IF BitAnd(labelSize, 192) = 0
    THEN IF LabelExceeds(pos, labelSize, d)
         THEN NameFail(g, "label length exceeds data buffer", {crp})
         ELSE IF ~InBuf(d, Span(pos, labelSize))
         THEN NamePanic({crp} \cup Span(pos, labelSize))
         ELSE [k |-> "cont", rd |-> {crp} \cup Span(pos, labelSize),
               g |-> [g EXCEPT
                        !.labels = Append(@, Slice(d, pos, pos + labelSize)),
                        !.currentReadPos = pos + labelSize]]
    ELSE IF BitAnd(labelSize, 192) = 192
    THEN LET after == AfterFirstPointer(g, pos)
             count == CountPointer(g.pointerFollowCount)
         IN
         IF TooManyPointers(count)
         THEN [k |-> "fail", rd |-> {crp}, name |-> TooManyText,
               cursor |-> IF after # 0 THEN after ELSE g.initialCursor,
               err |-> "too many compression pointers"]
         ELSE IF AtEnd(pos, d)
         THEN NameFail(g, "incomplete pointer offset", {crp})
         ELSE IF ~InBuf(d, {pos}) THEN NamePanic({crp, pos})
         ELSE
         LET dest == PointerDestination(labelSize, d[pos + 1])
         IN  IF InvalidDestination(dest, d)
             THEN NameFail(g, "invalid pointer destination", {crp, pos})
             ELSE [k |-> "cont", rd |-> {crp, pos},
                   g |-> [g EXCEPT
                            !.currentReadPos = dest,
                            !.pointerFollowCount = count,
                            !.posAfterFirstPointer = after]]
    ELSE NameFail(g, "invalid label type", {crp})

RECURSIVE RunName(_, _)
\* getDomainName from frame g to its return
RunName(d, g) ==
    LET o == NameIter(d, g)
    IN  IF o.k = "cont" THEN RunName(d, o.g) ELSE o

\* log lines of a failed name: getDomainName's, then parseRR's for a resource
\* record, then parseDNSMsg's
NameFailLogs(s) == IF s = "question" THEN 2 ELSE 3

NameStep ==
    /\ pc = "name"
    /\ steps' = steps + 1
    /\ LET o == NameIter(data, gdn)
       IN  /\ rd' = o.rd
           /\ IF o.k = "panic"
              THEN /\ pc' = "panic"
                   /\ UNCHANGED <<gdn, nameRet, cursor, logs, ret>>
              ELSE IF o.k = "cont"
              THEN /\ gdn' = o.g
                   /\ UNCHANGED <<pc, nameRet, cursor, logs, ret>>
              ELSE IF o.k = "ret"
              THEN /\ nameRet' = [name |-> o.name, cursor |-> o.cursor,
                                  err |-> Nil, called |-> TRUE]
                   /\ cursor' = o.cursor
                   /\ pc' = "fields"
                   /\ UNCHANGED <<gdn, logs, ret>>
              ELSE /\ nameRet' = [name |-> o.name, cursor |-> o.cursor,
                                  err |-> o.err, called |-> TRUE]
                   /\ cursor' = o.cursor
                   /\ logs' = logs + NameFailLogs(sec)
                   /\ ret' = Returned(msg, o.err)
                   /\ pc' = "done"
                   /\ UNCHANGED gdn
    /\ UNCHANGED <<full, data, call, msg, sec, arr, i, first, recs, orig>>

----------------------------------------------------------------------------
(* parseDNSMsg: the fixed fields of a question *)

\* cursor+4 > len(data)
QFieldsMissing(c, d) == c + QFixedLen > Len(d)

\* question[i] once Name, Qtype and Qclass are assigned
QuestionAt(d, name, c) ==
    [Name |-> name, Qtype |-> Uint16(d, c), Qclass |-> Uint16(d, c + 2)]

\* history: where a parsed record lies in the buffer
Parsed(s, start, nameEnd, end) ==
    [sec |-> s, start |-> start, nameEnd |-> nameEnd, end |-> end]

QuestionFields ==
    /\ pc = "fields"
    /\ sec = "question"
    /\ steps' = steps + 1
    /\ IF QFieldsMissing(cursor, data)
       THEN /\ logs' = logs + 1
            /\ ret' = Returned(msg, "insufficient data for Qtype/Qclass")
            /\ pc' = "done"
            /\ rd' = {}
            /\ UNCHANGED <<arr, i, cursor, recs>>
       ELSE IF ~InBuf(data, Span(cursor, QFixedLen))
       THEN /\ pc' = "panic"
            /\ rd' = Span(cursor, QFixedLen)
            /\ UNCHANGED <<arr, i, cursor, recs, logs, ret>>
       ELSE /\ arr' = [arr EXCEPT
                         !.elems = Append(@, QuestionAt(data, nameRet.name, cursor))]
            /\ cursor' = cursor + QFixedLen
            /\ i' = i + 1
            /\ pc' = "loop"
            /\ rd' = Span(cursor, QFixedLen)
            /\ recs' = Append(recs, Parsed(sec, gdn.initialCursor, cursor, cursor'))
            /\ UNCHANGED <<logs, ret>>
    /\ UNCHANGED <<full, data, call, msg, sec, gdn, nameRet, first, orig>>

----------------------------------------------------------------------------
(* parseRR after its name: the 10-byte header and the RDATA *)

\* cursor+10 > len(data)
RRHeaderMissing(c, d) == c + RRFixedLen > Len(d)

\* mutant: the RDATA boundary is not checked
RDataExceeds_Never(c, rdlength, d) == FALSE

\* cursor+int(rr.Rdlength) > len(data)
RDataExceeds(c, rdlength, d) == c + rdlength > Len(d)

\* mutant: the copy starts at the last byte of the RR header
RDataCopy_Early(d, c, rdlength) == Slice(d, c - 1, c - 1 + rdlength)

\* Data := make([]byte, rr.Rdlength); copy(Data, data[cursor:cursor+int(rr.Rdlength)])
RDataCopy(d, c, rdlength) == Slice(d, c, c + rdlength)

\* rr once all its fields are assigned; c is the cursor after the name
RRAt(d, name, c) ==
    [Name |-> name, Rrtype |-> Uint16(d, c), Class |-> Uint16(d, c + 2),
     Ttl |-> Uint32(d, c + 4), Rdlength |-> Uint16(d, c + 8),
     Data |-> RDataCopy(d, c + RRFixedLen, Uint16(d, c + 8))]

RRFields ==
    /\ pc = "fields"
    /\ sec # "question"
    /\ steps' = steps + 1
    /\ IF RRHeaderMissing(cursor, data)
       THEN /\ logs' = logs + 2
            /\ ret' = Returned(msg, "insufficient data for RR header")
            /\ pc' = "done"
            /\ rd' = {}
            /\ UNCHANGED <<arr, i, cursor, recs>>
       ELSE IF ~InBuf(data, Span(cursor, RRFixedLen))
       THEN /\ pc' = "panic"
            /\ rd' = Span(cursor, RRFixedLen)
            /\ UNCHANGED <<arr, i, cursor, recs, logs, ret>>
       ELSE
       LET rdlength == Uint16(data, cursor + 8)
           c == cursor + RRFixedLen
       IN  IF RDataExceeds(c, rdlength, data)
           THEN /\ logs' = logs + 2
                /\ ret' = Returned(msg, "rdata length exceeds data buffer")
                /\ pc' = "done"
                /\ cursor' = c
                /\ rd' = Span(cursor, RRFixedLen)
                /\ UNCHANGED <<arr, i, recs>>
           ELSE IF ~InBuf(data, Span(c, rdlength))
           THEN /\ pc' = "panic"
                /\ rd' = Span(cursor, RRFixedLen) \cup Span(c, rdlength)
                /\ UNCHANGED <<arr, i, cursor, recs, logs, ret>>
           ELSE /\ arr' = [arr EXCEPT
                             !.elems = Append(@, RRAt(data, nameRet.name, cursor))]
                /\ cursor' = c + rdlength
                /\ i' = i + 1
                /\ pc' = "loop"
                /\ rd' = Span(cursor, RRFixedLen) \cup Span(c, rdlength)
                /\ recs' = Append(recs, Parsed(sec, gdn.initialCursor, cursor, cursor'))
                /\ UNCHANGED <<logs, ret>>
    /\ UNCHANGED <<full, data, call, msg, sec, gdn, nameRet, first, orig>>

----------------------------------------------------------------------------
(* The caller: when the first call decoded the whole buffer, a second call *)
(* on the same buffer or on any prefix of it                               *)

\* the call returned success with the cursor at the end of the buffer
DecodedWhole == ret.returned /\ ret.err = Nil /\ cursor = Len(data)

\* the lengths of the buffer handed to the second call
SecondLens == IF DecodedWhole THEN 0 .. Len(full) ELSE {}

NextCall ==
    /\ pc = "done"
    /\ call = 1
    /\ call' = 2
    /\ first' = ret
    /\ \E k \in SecondLens : data' = SubSeq(full, 1, k)
    /\ pc' = "start"
    /\ msg' = ZeroMsg
    /\ sec' = "question"
    /\ arr' = NilArr
    /\ i' = 0
    /\ cursor' = 0
    /\ gdn' = NoFrame
    /\ nameRet' = NoNameRet
    /\ ret' = NoRet
    /\ rd' = {}
    /\ recs' = <<>>
    /\ steps' = 0
    /\ UNCHANGED <<full, logs, orig>>

----------------------------------------------------------------------------

Next ==
    \/ ParseHeader
    \/ SectionLoop
    \/ NameStep
    \/ QuestionFields
    \/ RRFields
    \/ NextCall

Spec == Init /\ [][Next]_vars

TypeOK ==
    /\ pc \in {"start", "loop", "name", "fields", "done", "panic"}
    /\ call \in {1, 2}

----------------------------------------------------------------------------
(* The header alone: every 16-bit flags word in a 12-byte buffer *)

InitHdr ==
    /\ \E w \in 0 .. MaxUint16 : full = HeaderWire(TestId, w, 0, 0, 0, 0)
    /\ Fresh(full)
    /\ call = 1
    /\ first = NoRet
    /\ logs = 0
    /\ orig = NoMsg

NextHdr == ParseHeader

SpecHdr == InitHdr /\ [][NextHdr]_vars

----------------------------------------------------------------------------
(* One name: a question whose name is a chain of compression pointers.     *)
(* The name at offset 12 points past the question's fixed fields to the     *)
(* next link, each link points to the one laid out after it, and the last   *)
(* one is the end of the chain, well-formed or not.                         *)

\* what the chain ends in
ChainEnds ==
    {"root", "a", "a.b", "self", "cycle", "oor", "cut", "over", "half", "bad"}

\* which links carry a label "c" before their pointer
LabelModes == {"none", "first", "every"}

\* the wire bytes of the end of a chain laid out at offset off
EndWire(kind, off) ==
    CASE kind = "root"  -> <<0>>
      [] kind = "a"     -> <<1, 97, 0>>
      [] kind = "a.b"   -> <<1, 97, 1, 98, 0>>
      [] kind = "self"  -> <<192, off>>
      [] kind = "cycle" -> <<192, HeaderLen>>
      [] kind = "oor"   -> <<192, off + 2>>
      [] kind = "cut"   -> <<1, 97>>
      [] kind = "over"  -> <<2, 97>>
      [] kind = "half"  -> <<192>>
      [] kind = "bad"   -> <<128>>

\* the label bytes before the pointer of link j
LinkLabel(mode, j) ==
    IF mode = "every" \/ (mode = "first" /\ j = 0) THEN <<1, 99>> ELSE <<>>

\* QTYPE A, QCLASS IN after the link at offset 12
LinkFixed(j) == IF j = 0 THEN <<0, 1, 0, 1>> ELSE <<>>

RECURSIVE ChainWire(_, _, _, _, _)
\* links j .. h - 1 and the end of the chain, laid out from offset off
ChainWire(off, j, h, mode, end) ==
    IF j = h THEN EndWire(end, off) \o LinkFixed(j)
    ELSE LET next == off + Len(LinkLabel(mode, j)) + 2 + Len(LinkFixed(j))
         IN  LinkLabel(mode, j) \o <<192, next>> \o LinkFixed(j)
                 \o ChainWire(next, j + 1, h, mode, end)

\* a buffer with one question whose name is a chain of h pointers
NameBuffer(h, mode, end) ==
    HeaderWire(TestId, TestFlags, 1, 0, 0, 0)
        \o ChainWire(HeaderLen, 0, h, mode, end)

InitName ==
    /\ \E h \in 0 .. MaxHops, mode \in LabelModes, end \in ChainEnds :
          full = NameBuffer(h, mode, end)
    /\ Fresh(full)
    /\ call = 1
    /\ first = NoRet
    /\ logs = 0
    /\ orig = NoMsg

NextName ==
    \/ ParseHeader
    \/ SectionLoop
    \/ NameStep
    \/ QuestionFields

SpecName == InitName /\ [][NextName]_vars

----------------------------------------------------------------------------
(* Round trip: buffers that are the wire encoding (header, questions,      *)
(* resource records, uncompressed names, big-endian integers) of a message *)

SetBit(b, weight) == IF b THEN weight ELSE 0

\* the flags word of a message
EncodeFlags(m) ==
    SetBit(m.response, 32768) + m.opcode * 2048
        + SetBit(m.authoritative, 1024) + SetBit(m.truncated, 512)
        + SetBit(m.recursion_desired, 256)
        + SetBit(m.recursion_available, 128) + m.rcode

U16(x) == <<x \div 256, x % 256>>

RECURSIVE FirstLabel(_)
\* the bytes of a name before its first "."
FirstLabel(name) ==
    IF name = <<>> \/ Head(name) = 46 THEN <<>>
    ELSE <<Head(name)>> \o FirstLabel(Tail(name))

RECURSIVE EncodeName(_)
\* the labels of a dot-joined name, each after its length byte, then zero
EncodeName(name) ==
    IF name = <<>> THEN <<0>>
    ELSE LET l == FirstLabel(name)
             rest == SubSeq(name, Len(l) + 2, Len(name))
         IN  <<Len(l)>> \o l \o EncodeName(rest)

EncodeQuestion(q) == EncodeName(q.Name) \o U16(q.Qtype) \o U16(q.Qclass)

EncodeRR(r) ==
    EncodeName(r.Name) \o U16(r.Rrtype) \o U16(r.Class) \o U16(r.Ttl[1])
        \o U16(r.Ttl[2]) \o U16(r.Rdlength) \o r.Data

RECURSIVE EncodeQuestions(_)
EncodeQuestions(elems) ==
    IF elems = <<>> THEN <<>>
    ELSE EncodeQuestion(Head(elems)) \o EncodeQuestions(Tail(elems))

RECURSIVE EncodeRRs(_)
EncodeRRs(elems) ==
    IF elems = <<>> THEN <<>>
    ELSE EncodeRR(Head(elems)) \o EncodeRRs(Tail(elems))

EncodeMsg(m) ==
    HeaderWire(m.id, EncodeFlags(m), m.question_num, m.answer_num,
               m.authority_num, m.additional_num)
        \o EncodeQuestions(m.question.elems)
        \o EncodeRRs(m.answer.elems)
        \o EncodeRRs(m.ns.elems)
        \o EncodeRRs(m.extra.elems)

\* a slice holding exactly the given elements
ArrOf(elems) == [n |-> Len(elems), elems |-> elems]

\* "", "a.b"
RTNames == {<<>>, <<97, 46, 98>>}

RTQuestions == {[Name |-> nm, Qtype |-> 1, Qclass |-> 1] : nm \in RTNames}

RTRecord(nm, rdata) ==
    [Name |-> nm, Rrtype |-> 5, Class |-> 1, Ttl |-> <<1, 44>>,
     Rdlength |-> Len(rdata), Data |-> rdata]

RTRecords == {RTRecord(<<>>, <<>>), RTRecord(<<97, 46, 98>>, <<192, 2>>)}

\* the flag fields of a message: a plain one and one with every bit set
RTFlags ==
    {[opcode |-> 0, authoritative |-> FALSE, truncated |-> FALSE,
      recursion_desired |-> FALSE, recursion_available |-> FALSE, rcode |-> 0],
     [opcode |-> 15, authoritative |-> TRUE, truncated |-> TRUE,
      recursion_desired |-> TRUE, recursion_available |-> TRUE, rcode |-> 15]}

\* the valid messages: every count is the length of its section
Messages ==
    {[id |-> TestId, response |-> resp, opcode |-> f.opcode,
      authoritative |-> f.authoritative, truncated |-> f.truncated,
      recursion_desired |-> f.recursion_desired,
      recursion_available |-> f.recursion_available, rcode |-> f.rcode,
      question_num |-> Len(q), answer_num |-> Len(an),
      authority_num |-> Len(ns), additional_num |-> Len(ar),
      question |-> ArrOf(q), answer |-> ArrOf(an), ns |-> ArrOf(ns),
      extra |-> ArrOf(ar)] :
        resp \in BOOLEAN, f \in RTFlags, q \in SeqsUpTo(RTQuestions, MaxQ),
        an \in SeqsUpTo(RTRecords, MaxRR), ns \in SeqsUpTo(RTRecords, 1),
        ar \in SeqsUpTo(RTRecords, 1)}

InitRT ==
    /\ orig \in Messages
    /\ full = EncodeMsg(orig)
    /\ Fresh(full)
    /\ call = 1
    /\ first = NoRet
    /\ logs = 0

NextRT ==
    \/ ParseHeader
    \/ SectionLoop
    \/ NameStep
    \/ QuestionFields
    \/ RRFields

SpecRT == InitRT /\ [][NextRT]_vars

----------------------------------------------------------------------------
(* Properties *)

\* every error parseDNSMsg can return
DecodeErrors ==
    {"data too short for DNS header", "EOF parsing questions",
     "EOF parsing answers", "EOF parsing authority RRs",
     "EOF parsing additional RRs", "insufficient data for Qtype/Qclass",
     "insufficient data for RR header", "rdata length exceeds data buffer",
     "reached end of data buffer", "label length exceeds data buffer",
     "incomplete pointer offset", "invalid pointer destination",
     "invalid label type", "too many compression pointers"}

\* C1: the decoder indexes the buffer only below len(data): no step stops on
\* an out-of-range index, every index a step touched lies inside the buffer,
\* and a call that ended returned a message or one of the decode errors.
C1_BoundsSafe ==
    /\ pc # "panic"
    /\ InBuf(data, rd)
    /\ pc = "done" => ret.returned /\ ret.err \in DecodeErrors \cup {Nil}

\* C1 witness: a resource record whose name followed a pointer was parsed
\* and its RDATA read reached the last byte of the buffer.
C1_Witness ==
    /\ pc = "loop"
    /\ sec # "question"
    /\ gdn.pointerFollowCount > 0
    /\ Len(data) - 1 \in rd

\* the position in the call, counted down towards the return
PcRank ==
    CASE pc = "start"  -> 4
      [] pc = "loop"   -> 3
      [] pc = "name"   -> 2
      [] pc = "fields" -> 1
      [] OTHER         -> 0

\* what is left to do, most significant first: calls, sections, buffer bytes
\* after the cursor, position in the call, pointers the name may still
\* follow, buffer bytes after the name's read position
Rank ==
    <<2 - call, 4 - SecIndex(sec), Len(data) - cursor, PcRank,
      MaxPointerFollow - gdn.pointerFollowCount,
      Len(data) - gdn.currentReadPos>>

RECURSIVE LexLess(_, _)
\* a < b in the lexicographic order of tuples of the same length
LexLess(a, b) ==
    /\ a # <<>>
    /\ \/ Head(a) < Head(b)
       \/ Head(a) = Head(b) /\ LexLess(Tail(a), Tail(b))

\* a step of the decoder that does not return moves down in the
\* well-founded order: its rank is a tuple of naturals smaller than before
RankDecreases ==
    (pc' # "done") =>
        /\ \A k \in 1 .. Len(Rank') : Rank'[k] >= 0
        /\ LexLess(Rank', Rank)

\* C2: no call stops short of a return, and every step that does not return
\* strictly decreases a rank of bounded naturals: so every call returns
\* after finitely many steps, whatever the pointers and the declared counts
\* are.  (Each position of a call has a step that is always enabled, and
\* steps counts the steps, so that a step that changes nothing else is a step
\* too.)
C2_Terminates ==
    /\ [](pc # "panic")
    /\ [][RankDecreases]_vars

\* C2 witness: a header declaring 65535 questions whose first name is a
\* pointer cycle was decoded to the end.
C2_Witness ==
    /\ pc = "done"
    /\ msg.question_num = MaxUint16
    /\ ret.err = "too many compression pointers"

RECURSIVE WireEnd(_, _)
\* the offset just past the occurrence of the name that starts at offset p:
\* after its zero byte, or after the two bytes of its first pointer
WireEnd(d, p) ==
    IF p >= Len(d) THEN -1
    ELSE IF d[p + 1] = 0 THEN p + 1
    ELSE IF d[p + 1] >= 192 THEN p + 2
    ELSE IF d[p + 1] < 64 THEN WireEnd(d, p + 1 + d[p + 1])
    ELSE -1

\* the smallest element of a non-empty set of integers
MinOf(S) == CHOOSE x \in S : \A y \in S : x <= y

\* C3: a name that decodes returns the offset just past its original
\* occurrence (after the zero byte, or after the first pointer's two bytes),
\* and the fixed fields of the record are read from that offset.
C3_ResumeOffset ==
    /\ (pc = "fields" /\ nameRet.err = Nil) =>
           /\ nameRet.cursor = WireEnd(data, gdn.initialCursor)
           /\ cursor = nameRet.cursor
    /\ \A k \in DOMAIN recs : recs[k].nameEnd = WireEnd(data, recs[k].start)
    /\ (pc = "loop" /\ rd # {} /\ recs # <<>>) =>
           MinOf(rd) = recs[Len(recs)].nameEnd

\* C3 witness: a name was decoded through two pointers.
C3_Witness ==
    /\ pc = "fields"
    /\ nameRet.err = Nil
    /\ gdn.pointerFollowCount >= 2

\* C4 (as claimed): a message returned with an error carries nothing decoded.
C4_AllOrNothing ==
    (pc = "done" /\ ret.err # Nil) => ret.msg = ZeroMsg

\* the history entries of the records parsed in section s
RecsOf(s) == SelectSeq(recs, LAMBDA r : r.sec = s)

\* the record at history entry r was parsed whole from the buffer d as the
\* resource record rr: its Data is the Rdlength bytes after its 10-byte header
WholeRR(d, r, rr) ==
    /\ rr.Rdlength = Uint16(d, r.nameEnd + 8)
    /\ Len(rr.Data) = rr.Rdlength
    /\ \A t \in 1 .. Len(rr.Data) : rr.Data[t] = d[r.nameEnd + RRFixedLen + t]
    /\ r.end = r.nameEnd + RRFixedLen + rr.Rdlength
    /\ r.end <= Len(d)

\* C5: on success each decoded sequence has as many elements as its header
\* count, every element was parsed, and every resource record's Data is the
\* Rdlength buffer bytes that follow its RR header.
C5_CountsAndData ==
    (pc = "done" /\ ret.err = Nil) =>
        \A s \in {"question", "answer", "ns", "extra"} :
            /\ ret.msg[s].n = CountOf(ret.msg, s)
            /\ Len(ret.msg[s].elems) = ret.msg[s].n
            /\ Len(RecsOf(s)) = ret.msg[s].n
            /\ s # "question" =>
                 \A k \in 1 .. Len(ret.msg[s].elems) :
                     WholeRR(data, RecsOf(s)[k], ret.msg[s].elems[k])

\* C5 witness: a message with two answers, the second with two RDATA bytes,
\* was decoded.
C5_Witness ==
    /\ pc = "done"
    /\ ret.err = Nil
    /\ ret.msg.answer_num = 2
    /\ Len(ret.msg.answer.elems) = 2
    /\ ret.msg.answer.elems[2].Rdlength = 2

\* the errors that report a buffer that ends too early
TruncationErrors ==
    {"data too short for DNS header", "EOF parsing questions",
     "EOF parsing answers", "EOF parsing authority RRs",
     "EOF parsing additional RRs", "insufficient data for Qtype/Qclass",
     "insufficient data for RR header", "rdata length exceeds data buffer",
     "reached end of data buffer", "label length exceeds data buffer",
     "incomplete pointer offset"}

\* C9: decoding a strict prefix of a buffer that decoded whole ends with a
\* truncation or pointer-out-of-range error, never with success or a stop on
\* an out-of-range index.
C9_TruncationDetected ==
    (call = 2 /\ Len(data) < Len(full) /\ pc \in {"done", "panic"}) =>
        /\ pc = "done"
        /\ ret.err \in TruncationErrors \cup {"invalid pointer destination"}

\* C9 witness: a prefix that cuts the RDATA of a record was rejected.
C9_Witness ==
    /\ call = 2
    /\ pc = "done"
    /\ Len(data) < Len(full)
    /\ ret.err = "rdata length exceeds data buffer"

\* the count the header of buffer d declares for section s
Declared(d, s) == Uint16(d, 2 + 2 * SecIndex(s))

\* C10: a call that returns success parsed, in every section, as many
\* records as the buffer's header declares; with fewer it returns an error.
C10_CountEnforced ==
    (pc = "done" /\ Len(data) >= HeaderLen) =>
        (ret.err = Nil <=>
            \A s \in {"question", "answer", "ns", "extra"} :
                Len(RecsOf(s)) = Declared(data, s))

\* C10 witness: the header declares two answers, one complete answer was
\* parsed up to the end of the buffer, and the call failed.
C10_Witness ==
    /\ pc = "done"
    /\ Len(data) >= HeaderLen
    /\ Declared(data, "answer") = 2
    /\ Len(RecsOf("answer")) = 1
    /\ cursor = Len(data)
    /\ ret.err = "EOF parsing answers"

\* the 16-bit big-endian flags word at offset 2 of buffer d
FlagsWord(d) == d[3] * 256 + d[4]

\* bit k of the word w
Bit(w, k) == (w \div Pow2(k)) % 2

\* C6 (as claimed): the decoded response flag is the QR bit (0x8000) of the
\* flags word.
C6_ResponseIsQR ==
    pc = "loop" => (msg.response <=> Bit(FlagsWord(data), 15) = 1)

\* C7: opcode is bits 11..14, authoritative bit 10, truncated bit 9,
\* recursion_desired bit 8, recursion_available bit 7 alone and rcode bits
\* 0..3 of the flags word, for every 16-bit word.
C7_FlagBits ==
    pc = "loop" =>
        LET w == FlagsWord(data)
        IN  /\ msg.opcode = (w \div 2048) % 16
            /\ msg.authoritative = (Bit(w, 10) = 1)
            /\ msg.truncated = (Bit(w, 9) = 1)
            /\ msg.recursion_desired = (Bit(w, 8) = 1)
            /\ msg.recursion_available = (Bit(w, 7) = 1)
            /\ msg.rcode = w % 16

\* C7 witness: the header with flags 0x7C7F (opcode 15, every flag but RA,
\* the reserved bits 4..6 and rcode 15 set) was parsed with RA false.
C7_Witness ==
    /\ pc = "loop"
    /\ FlagsWord(data) = 31871
    /\ msg.opcode = 15
    /\ msg.rcode = 15
    /\ ~msg.recursion_available

\* C8 (as claimed): decoding the wire encoding of a valid message gives the
\* message back, equal in every field.
C8_RoundTrip ==
    (pc = "done" /\ orig # NoMsg) => (ret.err = Nil /\ ret.msg = orig)

\* the round trip does hold for the messages whose response flag is set
RoundTripOfResponses ==
    (pc = "done" /\ orig # NoMsg /\ orig.response) =>
        (ret.err = Nil /\ ret.msg = orig)

\* C11: a buffer of fewer than 12 bytes, the empty one included, is rejected
\* by the first step with the header error, no byte read and no field of the
\* message assigned, and only such a buffer gets that error; a 12-byte buffer
\* whose four counts are zero decodes with four empty sections.
C11_HeaderLength ==
    /\ (pc # "start" /\ Len(data) < HeaderLen) =>
           /\ pc = "done"
           /\ steps = 1
           /\ rd = {}
           /\ ret.err = "data too short for DNS header"
           /\ ret.msg = ZeroMsg
    /\ (pc = "done" /\ ret.err = "data too short for DNS header") =>
           Len(data) < HeaderLen
    /\ (/\ pc = "done"
        /\ Len(data) = HeaderLen
        /\ \A s \in {"question", "answer", "ns", "extra"} : Declared(data, s) = 0)
           => /\ ret.err = Nil
              /\ \A s \in {"question", "answer", "ns", "extra"} :
                     ret.msg[s].n = 0 /\ ret.msg[s].elems = <<>>

\* C11 witness: a 12-byte buffer with zero counts decoded with empty
\* sections, and then the empty buffer was rejected.
C11_Witness ==
    /\ call = 2
    /\ Len(full) = HeaderLen
    /\ first.err = Nil
    /\ first.msg.question.elems = <<>>
    /\ data = <<>>
    /\ pc = "done"
    /\ ret.err = "data too short for DNS header"

\* the name decoder is about to read a pointer that is within the hop cap and
\* whose second byte lies in the buffer
AtPointer ==
    /\ pc = "name"
    /\ gdn.currentReadPos + 1 < Len(data)
    /\ data[gdn.currentReadPos + 1] >= 192
    /\ gdn.pointerFollowCount < MaxPointerFollow

\* the 14-bit target of the pointer at the read position: the low 6 bits of
\* its first byte, then its second byte
Target ==
    (data[gdn.currentReadPos + 1] % 64) * 256 + data[gdn.currentReadPos + 2]

\* what a step at a pointer does
PointerChecked ==
    /\ AtPointer =>
          IF Target >= Len(data)
          THEN /\ pc' = "done"
               /\ ret'.err = "invalid pointer destination"
          ELSE /\ pc' = "name"
               /\ gdn'.currentReadPos = Target
               /\ gdn'.labels = gdn.labels
    /\ (pc = "name" /\ pc' = "done" /\ ret'.err = "invalid pointer destination")
          => AtPointer /\ Target >= Len(data)

\* C12: a pointer within the hop cap is followed exactly when its 14-bit
\* target is below len(data), forward or backward, and reading goes on at
\* that offset with the labels kept; a target at or past len(data) ends the
\* call with the invalid-destination error, which has no other cause.
C12_PointerRange == [][PointerChecked]_vars

\* C12 witness: the name of a record followed a pointer back to offset 12 and
\* from there a pointer forward to offset 14.
C12_Witness ==
    /\ pc = "name"
    /\ gdn.pointerFollowCount = 2
    /\ gdn.initialCursor > HeaderLen + 2
    /\ Slice(data, HeaderLen, HeaderLen + 2) = <<192, HeaderLen + 2>>
    /\ gdn.currentReadPos = HeaderLen + 2

RECURSIVE Walk(_, _, _, _, _)
\* the name at offset p of buffer d read by the wire format's rules, after n
\* pointers, with at most cap pointers followed: how the reading ends (k),
\* the labels read, the pointers followed and the offset of the last byte
\* looked at
Walk(d, p, n, labels, cap) ==
    LET out(k) == [k |-> k, labels |-> labels, ptrs |-> n, at |-> p]
    IN  IF p >= Len(d) THEN out("end")
        ELSE IF d[p + 1] = 0 THEN out("zero")
        ELSE IF d[p + 1] < 64
        THEN IF p + 1 + d[p + 1] > Len(d) THEN out("over")
             ELSE Walk(d, p + 1 + d[p + 1], n,
                       Append(labels, SubSeq(d, p + 2, p + 1 + d[p + 1])), cap)
        ELSE IF d[p + 1] < 192 THEN out("bad")
        ELSE IF n = cap THEN out("hops")
        ELSE IF p + 1 >= Len(d) THEN out("half")
        ELSE IF (d[p + 1] - 192) * 256 + d[p + 2] >= Len(d) THEN out("oor")
        ELSE Walk(d, (d[p + 1] - 192) * 256 + d[p + 2], n + 1, labels, cap)

\* the name the running or last getDomainName call was asked for
Asked == Walk(data, gdn.initialCursor, 0, <<>>, 10)

RECURSIVE FlatWire(_)
\* the uncompressed encoding of a label sequence
FlatWire(labels) ==
    IF labels = <<>> THEN <<0>>
    ELSE <<Len(Head(labels))>> \o Head(labels) \o FlatWire(Tail(labels))

RECURSIVE Dotted(_)
\* the labels with a "." between each two
Dotted(labels) ==
    IF labels = <<>> THEN <<>>
    ELSE IF Len(labels) = 1 THEN Head(labels)
    ELSE Head(labels) \o <<46>> \o Dotted(Tail(labels))

\* C13: a name that reaches its zero byte within the pointer cap decodes, to
\* the labels read before the first pointer and then at each jump target,
\* joined by dots; decoding the uncompressed encoding of those labels gives
\* the same name without a pointer; the root name decodes to "".
C13_Transparent ==
    (nameRet.called /\ pc # "name") =>
        /\ (Asked.k = "zero") <=> (nameRet.err = Nil)
        /\ nameRet.err = Nil =>
              /\ nameRet.name = Dotted(Asked.labels)
              /\ LET u == RunName(FlatWire(Asked.labels), EnterName(0))
                 IN  /\ u.k = "ret"
                     /\ u.name = nameRet.name
                     /\ u.cursor = Len(FlatWire(Asked.labels))
              /\ data[gdn.initialCursor + 1] = 0 => nameRet.name = <<>>

\* C13 witness: a name with a label before each of its two chained pointers
\* decoded to "c.c.a.b".
C13_Witness ==
    /\ pc = "fields"
    /\ nameRet.err = Nil
    /\ gdn.pointerFollowCount = 2
    /\ nameRet.name = <<99, 46, 99, 46, 97, 46, 98>>

\* a second call on the buffer of the first returns what the first returned,
\* and the buffer a call was given is as the caller holds it
SameBufferSameResult ==
    /\ data = SubSeq(full, 1, Len(data))
    /\ (call = 2 /\ pc = "done" /\ data = full) => ret = first

\* C14 (as claimed): no call writes a line to the process log, on success or
\* on an error path, the buffer is not modified, and a second call on an equal
\* buffer returns an equal result.
C14_Pure ==
    /\ logs = 0
    /\ SameBufferSameResult

RECURSIVE Cycles(_, _, _)
\* reading the name at offset p of buffer d, with no cap on the pointers,
\* comes back to a pointer it has followed; seen holds the offsets of the
\* pointers followed so far
Cycles(d, p, seen) ==
    IF p >= Len(d) \/ d[p + 1] = 0 THEN FALSE
    ELSE IF d[p + 1] < 64
    THEN p + 1 + d[p + 1] <= Len(d) /\ Cycles(d, p + 1 + d[p + 1], seen)
    ELSE IF d[p + 1] < 192 THEN FALSE
    ELSE IF p \in seen THEN TRUE
    ELSE /\ p + 1 < Len(d)
         /\ (d[p + 1] - 192) * 256 + d[p + 2] < Len(d)
         /\ Cycles(d, (d[p + 1] - 192) * 256 + d[p + 2], seen \cup {p})

\* the pointers of the name asked for form a cycle
Cyclic == Cycles(data, gdn.initialCursor, {})

\* C15: a name is rejected for too many pointers exactly when its walk comes
\* to an eleventh pointer byte, so never when it follows ten or fewer; a name
\* whose pointers form a cycle, of one pointer or of more than ten, always
\* ends with that error; and no call has followed more than ten.
C15_HopCap ==
    /\ gdn.pointerFollowCount <= 10
    /\ (nameRet.called /\ pc # "name") =>
          /\ (nameRet.err = "too many compression pointers")
                 <=> (Asked.k = "hops" /\ Asked.ptrs = 10)
          /\ Cyclic => /\ pc = "done"
                       /\ ret.err = "too many compression pointers"

\* C15 witness: a chain of eleven pointers that ends in a name, with no
\* cycle, was rejected for too many pointers after ten were followed.
C15_Witness ==
    /\ pc = "done"
    /\ ret.err = "too many compression pointers"
    /\ gdn.pointerFollowCount = 10
    /\ Walk(data, HeaderLen, 0, <<>>, 11).k = "zero"
    /\ Walk(data, HeaderLen, 0, <<>>, 11).ptrs = 11

\* a failed name other than one with too many pointers returns "" and the
\* offset it was called with
OtherFailuresReturnEmpty ==
    (/\ nameRet.called
     /\ pc # "name"
     /\ nameRet.err \notin {Nil, "too many compression pointers"})
        => nameRet.name = <<>> /\ nameRet.cursor = gdn.initialCursor

\* C16 (as claimed): a name that fails returns the empty string and the
\* offset getDomainName was called with, whatever the cause, and never a text
\* in place of the name.
C16_FailureReturn ==
    (nameRet.called /\ pc # "name" /\ nameRet.err # Nil) =>
        /\ nameRet.name = <<>>
        /\ nameRet.cursor = gdn.initialCursor

\* C17: a name whose labels run exactly to the end of the buffer, with no
\* zero byte and no pointer after them, ends the call with the end-of-buffer
\* error; and a name that decoded did so on reading one byte, inside the
\* buffer, that is zero.
C17_NoTerminator ==
    /\ (pc # "name" /\ gdn.labels # <<>> /\ gdn.currentReadPos = Len(data)) =>
          /\ pc = "done"
          /\ nameRet.name = <<>>
          /\ ret.err = "reached end of data buffer"
    /\ pc = "fields" =>
          /\ nameRet.err = Nil
          /\ \E z \in 0 .. Len(data) - 1 : rd = {z} /\ data[z + 1] = 0

\* C17 witness: a label that ends on the last byte of the buffer was read
\* and the call failed with the end-of-buffer error.
C17_Witness ==
    /\ pc = "done"
    /\ gdn.labels = <<(<<97>>)>>
    /\ gdn.currentReadPos = Len(data)
    /\ data[Len(data)] = 97
    /\ ret.err = "reached end of data buffer"

\* C18: the section cursor is 12 when the first record starts, a record
\* starts where the one before it ended, each record's name ends after its
\* start and the record ends after its name and at most at len(data); the
\* offset a decoded name returns is above the one it started at and at most
\* len(data), and the cursor never passes len(data).
C18_CursorAdvances ==
    /\ cursor <= Len(data)
    /\ pc = "loop" =>
          cursor = IF recs = <<>> THEN 12 ELSE recs[Len(recs)].end
    /\ \A k \in DOMAIN recs :
          /\ recs[k].start = IF k = 1 THEN 12 ELSE recs[k - 1].end
          /\ recs[k].start < recs[k].nameEnd
          /\ recs[k].nameEnd < recs[k].end
          /\ recs[k].end <= Len(data)
    /\ pc = "fields" =>
          /\ cursor = nameRet.cursor
          /\ gdn.initialCursor < nameRet.cursor
          /\ nameRet.cursor <= Len(data)

\* C18 witness: a second record whose name jumped back before its start was
\* parsed and the cursor stands at its end.
C18_Witness ==
    /\ pc = "loop"
    /\ Len(recs) >= 2
    /\ gdn.pointerFollowCount >= 1
    /\ gdn.currentReadPos < gdn.initialCursor
    /\ gdn.initialCursor = recs[Len(recs)].start
    /\ cursor = recs[Len(recs)].end

============================================================================
